---------------------------- MODULE Spec2Model ----------------------------
(***************************************************************************)
(* Model of the MAT autonomous build loop: BuildLoop (ralph/build_loop.py) *)
(* driving the ScrumMasterAgent's BuildQueue (agents/scrum_master.py).     *)
(*                                                                         *)
(* A JSON object is modelled as a record whose optional keys hold a set:   *)
(* {} when the key is absent, {v} when it is present with value v, so that *)
(* dict.get(key, default) is Get(field, default).                          *)
(***************************************************************************)
EXTENDS Integers, Sequences, FiniteSets, TLC

VARIABLES
    file,                 \* prd.json on durable storage: [kind, stories, fmt]
    prd_data,             \* BuildLoop._prd_data: {} (None) or {userStories}
    max_retries,          \* BuildLoop.max_retries
    stories,              \* scrum_master.build_queue.stories
    current_story_index,  \* scrum_master.build_queue.current_story_index
    pc,                   \* position of the control in run()
    story,                \* run(): queue position of the selected StoryState
    attempt,              \* run_story_with_retries: the for-loop variable
    success,              \* run(): success of run_story_with_retries
    written_files,        \* run(): written_files of run_story_with_retries
    completed_count,      \* run(): completed_count
    failed_story_ids,     \* run(): failed_story_ids
    errors,               \* run(): errors
    total_stories,        \* run(): total_stories
    failure_reason,       \* run_story_with_retries: failure_reason of the last attempt
    result,               \* {} until run() returns, then {BuildResult}
    impl_log,             \* history: queue position of each implement_story call
    all_passed,           \* history: no attempt of the run has failed so far
    agent_calls,          \* history: calls run_story_with_retries made to the agents
    initial_stories,      \* history: userStories as load_prd returned them
    calls                 \* history: operations applied to the loaded objects

vars == <<file, prd_data, max_retries, stories, current_story_index, pc,
          story, attempt, success, written_files, completed_count,
          failed_story_ids, errors, total_stories, failure_reason, result,
          impl_log, all_passed, agent_calls, initial_stories, calls>>

\* The history variables no step of run() changes after the load.
loaded == <<initial_stories, calls>>

(***************************************************************************)
(* Bounds of the model.                                                    *)
(***************************************************************************)
MaxStories == 2
MaxRetries == 2
MaxCalls == 2

(***************************************************************************)
(* Program constants.                                                      *)
(***************************************************************************)
DefaultPriority == 999

PENDING == "pending"
IN_PROGRESS == "in_progress"
BLOCKED == "blocked"
COMPLETED == "completed"
FAILED == "failed"

StoryStatus == {PENDING, IN_PROGRESS, BLOCKED, COMPLETED, FAILED}

(***************************************************************************)
(* dict.get(key, default) on an optional field.                            *)
(***************************************************************************)
Get(field, default) == IF field = {} THEN default ELSE CHOOSE v \in field : TRUE

(***************************************************************************)
(* The records the model draws prd.json from.  The i-th story of a record  *)
(* carries title i (titles are never read by the control flow, so the      *)
(* title identifies the record entry).  Ids are compared for equality      *)
(* only, so the i-th story has no id, its own id or an earlier story's id. *)
(***************************************************************************)
IdOf(i) == "s" \o ToString(i)

IdChoices(i) == {{}} \cup {{IdOf(j)} : j \in 1..i}

\* The JSON values of a "priority" key: an integer, null or a string (a
\* string is held by its rank in the order of strings).
JInt(n) == [type |-> "int", v |-> n]

JNull == [type |-> "null", v |-> 0]

JStr(k) == [type |-> "str", v |-> k]

PriorityChoices == {{}, {JInt(1)}, {JInt(2)}, {JNull}, {JStr(1)}}

PassesChoices == {{TRUE}, {FALSE}}

StoryChoices(i) ==
    [id : IdChoices(i), title : {i}, priority : PriorityChoices,
     passes : PassesChoices]

UserStoriesOfLen(n) ==
    {s \in [1..n -> UNION {StoryChoices(i) : i \in 1..n}] :
        \A i \in 1..n : s[i] \in StoryChoices(i)}

UserStoriesChoices == UNION {UserStoriesOfLen(n) : n \in 0..MaxStories}

\* What the file can hold: no file, bytes that are not UTF-8, text that is
\* not JSON, a JSON scalar (null, a number, true), an object without
\* "userStories", an object whose "userStories" is not a list, or an object
\* with a list of stories.
FileKinds ==
    {"missing", "not_utf8", "bad_json", "scalar", "no_field", "not_list", "valid"}

\* fmt: "as_found" is the text the run found, "indent2" what save_prd writes.
FileChoices ==
    [kind : FileKinds \ {"valid"}, stories : {<<>>}, fmt : {"as_found"}]
    \cup [kind : {"valid"}, stories : UserStoriesChoices, fmt : {"as_found"}]

(***************************************************************************)
(* StoryState.from_prd_story                                               *)
(***************************************************************************)
from_prd_story(s) ==
    [id |-> Get(s.id, ""),
     title |-> s.title,
     priority |-> Get(s.priority, JInt(DefaultPriority)),
     status |-> IF Get(s.passes, FALSE) THEN COMPLETED ELSE PENDING,
     attempt_count |-> 0,
     failure_reasons |-> <<>>,
     blockers |-> <<>>]

(***************************************************************************)
(* Python's a < b on two priorities: defined between two integers and      *)
(* between two strings; it raises TypeError when one of them is None or    *)
(* when one is an integer and the other a string.                          *)
(***************************************************************************)
comparable(a, b) == a.type = b.type /\ a.type # "null"

lt(a, b) == a.v < b.v

(***************************************************************************)
(* list.sort(key=lambda s: s.priority): a stable sort, as an insertion     *)
(* sort that puts each element after the elements whose key is not larger. *)
(***************************************************************************)
RECURSIVE insert_sorted_before_equal(_, _)
insert_sorted_before_equal(sorted, s) ==
    IF sorted = <<>> THEN <<s>>
    ELSE IF lt(Head(sorted).priority, s.priority)
         THEN <<Head(sorted)>> \o insert_sorted_before_equal(Tail(sorted), s)
         ELSE <<s>> \o sorted

RECURSIVE insert_sorted(_, _)
insert_sorted(sorted, s) ==
    IF sorted = <<>> THEN <<s>>
    ELSE IF ~lt(s.priority, Head(sorted).priority)
         THEN <<Head(sorted)>> \o insert_sorted(Tail(sorted), s)
         ELSE <<s>> \o sorted

RECURSIVE sort_by_priority(_)
sort_by_priority(seq) ==
    IF seq = <<>> THEN <<>>
    ELSE insert_sorted(sort_by_priority(SubSeq(seq, 1, Len(seq) - 1)),
                       seq[Len(seq)])

(***************************************************************************)
(* A sort compares every element with another one at least, and across any *)
(* split of the list: it raises TypeError exactly when two of the keys     *)
(* cannot be compared.                                                     *)
(***************************************************************************)
sort_raises(seq) ==
    \E i, j \in 1..Len(seq) :
        i # j /\ ~comparable(seq[i].priority, seq[j].priority)

\* A load_from_prd that leaves the cursor where it was.
load_from_prd_keeps_cursor(userStories, cursor) ==
    LET appended ==
            [i \in 1..Len(userStories) |-> from_prd_story(userStories[i])]
    IN  IF sort_raises(appended)
        THEN [ends |-> "TypeError", stories |-> appended,
              current_story_index |-> cursor]
        ELSE [ends |-> "ok", stories |-> sort_by_priority(appended),
              current_story_index |-> cursor]

(***************************************************************************)
(* BuildQueue.load_from_prd: how it ends, the new stories list and the     *)
(* cursor.  When the sort raises, the stories have been appended and are   *)
(* left in the order of the record (lists of up to three stories: the      *)
(* first comparison of an uncomparable key comes before any move), and     *)
(* the cursor has not been reset.                                          *)
(***************************************************************************)
load_from_prd(userStories, cursor) ==
    LET appended ==
            [i \in 1..Len(userStories) |-> from_prd_story(userStories[i])]
    IN  IF sort_raises(appended)
        THEN [ends |-> "TypeError", stories |-> appended,
              current_story_index |-> cursor]
        ELSE [ends |-> "ok", stories |-> sort_by_priority(appended),
              current_story_index |-> -1]

(***************************************************************************)
(* BuildQueue.get_current_story: the position of the story at the cursor,  *)
(* 0 (None) when the cursor is not an index of the list.                   *)
(***************************************************************************)
get_current_story(q, cursor) ==
    IF 0 <= cursor /\ cursor < Len(q) THEN cursor + 1 ELSE 0

\* Queue positions are 1..Len(q) here; the source's index is the position - 1.
FirstWhere(q, P(_)) ==
    IF \E i \in 1..Len(q) : P(q[i])
    THEN CHOOSE i \in 1..Len(q) : P(q[i]) /\ \A j \in 1..(i - 1) : ~P(q[j])
    ELSE 0

(***************************************************************************)
(* BuildQueue.get_next_story: position of the first PENDING story (0 for   *)
(* None) and the cursor it leaves.                                         *)
(***************************************************************************)
LastWhere(q, P(_)) ==
    IF \E i \in 1..Len(q) : P(q[i])
    THEN CHOOSE i \in 1..Len(q) : P(q[i]) /\ \A j \in (i + 1)..Len(q) : ~P(q[j])
    ELSE 0

\* A get_next_story that unsets the cursor when no story is PENDING.
BuildQueue_get_next_story_unsets(q, cursor) ==
    LET IsPending(s) == s.status = PENDING
        i == FirstWhere(q, IsPending)
    IN  [story |-> i, current_story_index |-> i - 1]

BuildQueue_get_next_story_last(q, cursor) ==
    LET IsPending(s) == s.status = PENDING
        i == LastWhere(q, IsPending)
    IN  [story |-> i, current_story_index |-> IF i = 0 THEN cursor ELSE i - 1]

BuildQueue_get_next_story_or_completed(q, cursor) ==
    LET IsPending(s) == s.status \in {PENDING, COMPLETED}
        i == FirstWhere(q, IsPending)
    IN  [story |-> i, current_story_index |-> IF i = 0 THEN cursor ELSE i - 1]

BuildQueue_get_next_story(q, cursor) ==
    LET IsPending(s) == s.status = PENDING
        i == FirstWhere(q, IsPending)
    IN  [story |-> i, current_story_index |-> IF i = 0 THEN cursor ELSE i - 1]

\* A get_next_story that counts the selection and leaves the status.
ScrumMaster_get_next_story_counts_only(q, cursor) ==
    LET r == BuildQueue_get_next_story(q, cursor)
    IN  [story |-> r.story,
         current_story_index |-> r.current_story_index,
         stories |-> IF r.story = 0 THEN q
                     ELSE [q EXCEPT ![r.story].attempt_count = @ + 1]]

(***************************************************************************)
(* ScrumMasterAgent.get_next_story                                         *)
(***************************************************************************)
ScrumMaster_get_next_story(q, cursor) ==
    LET r == BuildQueue_get_next_story(q, cursor)
    IN  [story |-> r.story,
         current_story_index |-> r.current_story_index,
         stories |-> IF r.story = 0 THEN q
                     ELSE [q EXCEPT ![r.story].status = IN_PROGRESS,
                                    ![r.story].attempt_count = @ + 1]]

(***************************************************************************)
(* ScrumMasterAgent.mark_story_completed / mark_story_failed /             *)
(* mark_story_blocked / retry_story: each acts on the first story with the *)
(* id.                                                                     *)
(***************************************************************************)
\* A mark_story_completed that finds no story.
mark_story_completed_nothing(q, story_id) == q

mark_story_completed_keeps_blockers(q, story_id) ==
    LET HasId(s) == s.id = story_id
        i == FirstWhere(q, HasId)
    IN  IF i = 0 THEN q
        ELSE [q EXCEPT ![i].status = COMPLETED]

mark_story_completed(q, story_id) ==
    LET HasId(s) == s.id = story_id
        i == FirstWhere(q, HasId)
    IN  IF i = 0 THEN q
        ELSE [q EXCEPT ![i].status = COMPLETED, ![i].blockers = <<>>]

\* A mark_story_failed that leaves the story BLOCKED.
mark_story_failed_as_blocked(q, story_id, reason) ==
    LET HasId(s) == s.id = story_id
        i == FirstWhere(q, HasId)
    IN  IF i = 0 THEN q
        ELSE [q EXCEPT ![i].status = BLOCKED,
                       ![i].failure_reasons = Append(@, reason)]

mark_story_failed_nothing(q, story_id, reason) == q

mark_story_failed(q, story_id, reason) ==
    LET HasId(s) == s.id = story_id
        i == FirstWhere(q, HasId)
    IN  IF i = 0 THEN q
        ELSE [q EXCEPT ![i].status = FAILED,
                       ![i].failure_reasons = Append(@, reason)]

\* A mark_story_blocked that blocks every story with the id.
mark_story_blocked_every(q, story_id, blocker) ==
    [i \in 1..Len(q) |->
        IF q[i].id = story_id
        THEN [q[i] EXCEPT !.status = BLOCKED, !.blockers = Append(@, blocker)]
        ELSE q[i]]

mark_story_blocked(q, story_id, blocker) ==
    LET HasId(s) == s.id = story_id
        i == FirstWhere(q, HasId)
    IN  IF i = 0 THEN q
        ELSE [q EXCEPT ![i].status = BLOCKED,
                       ![i].blockers = Append(@, blocker)]

\* A retry_story that also resets a story that is IN_PROGRESS.
retry_story_in_progress_too(q, story_id) ==
    LET Retryable(s) ==
            s.id = story_id /\ s.status \in {FAILED, BLOCKED, IN_PROGRESS}
        i == FirstWhere(q, Retryable)
    IN  IF i = 0 THEN [ret |-> FALSE, stories |-> q]
        ELSE [ret |-> TRUE, stories |-> [q EXCEPT ![i].status = PENDING]]

\* A retry_story that forgets the failure reasons of the story it resets.
retry_story_clears_reasons(q, story_id) ==
    LET Retryable(s) == s.id = story_id /\ s.status \in {FAILED, BLOCKED}
        i == FirstWhere(q, Retryable)
    IN  IF i = 0 THEN [ret |-> FALSE, stories |-> q]
        ELSE [ret |-> TRUE,
              stories |-> [q EXCEPT ![i].status = PENDING,
                                    ![i].failure_reasons = <<>>]]

\* retry_story returns at the first story with the id that is FAILED or
\* BLOCKED; a story with the id in another status does not end the loop.
retry_story(q, story_id) ==
    LET Retryable(s) == s.id = story_id /\ s.status \in {FAILED, BLOCKED}
        i == FirstWhere(q, Retryable)
    IN  IF i = 0 THEN [ret |-> FALSE, stories |-> q]
        ELSE [ret |-> TRUE, stories |-> [q EXCEPT ![i].status = PENDING]]

(***************************************************************************)
(* ScrumMasterAgent.should_continue_build: the value returned and the      *)
(* queue it leaves (the first FAILED or BLOCKED story under the limit is   *)
(* reset to PENDING unless a PENDING story comes before it).               *)
(***************************************************************************)
\* A should_continue_build that resets every story under the limit.
should_continue_build_resets_all(q, limit) ==
    LET Stops(s) == \/ s.status = PENDING
                    \/ /\ s.status \in {FAILED, BLOCKED}
                       /\ s.attempt_count < limit
    IN  [ret |-> FirstWhere(q, Stops) # 0,
         stories |-> [i \in 1..Len(q) |->
                         IF Stops(q[i]) THEN [q[i] EXCEPT !.status = PENDING]
                         ELSE q[i]]]

\* A should_continue_build that answers without resetting any story.
should_continue_build_no_reset(q, limit) ==
    LET Stops(s) == \/ s.status = PENDING
                    \/ /\ s.status \in {FAILED, BLOCKED}
                       /\ s.attempt_count < limit
    IN  [ret |-> FirstWhere(q, Stops) # 0, stories |-> q]

should_continue_build_no_limit(q, limit) ==
    LET Stops(s) == s.status \in {PENDING, FAILED, BLOCKED}
        i == FirstWhere(q, Stops)
    IN  IF i = 0 THEN [ret |-> FALSE, stories |-> q]
        ELSE [ret |-> TRUE, stories |-> [q EXCEPT ![i].status = PENDING]]

should_continue_build_gives_up(q, limit) ==
    LET Stops(s) == s.status \in {PENDING, FAILED, BLOCKED}
        i == FirstWhere(q, Stops)
    IN  IF i = 0 \/ (q[i].status # PENDING /\ q[i].attempt_count >= limit)
        THEN [ret |-> FALSE, stories |-> q]
        ELSE [ret |-> TRUE, stories |-> [q EXCEPT ![i].status = PENDING]]

should_continue_build_one_over(q, limit) ==
    LET Stops(s) == \/ s.status = PENDING
                    \/ /\ s.status \in {FAILED, BLOCKED}
                       /\ s.attempt_count <= limit
        i == FirstWhere(q, Stops)
    IN  IF i = 0 THEN [ret |-> FALSE, stories |-> q]
        ELSE [ret |-> TRUE, stories |-> [q EXCEPT ![i].status = PENDING]]

should_continue_build_ignores_blocked(q, limit) ==
    LET Stops(s) == \/ s.status = PENDING
                    \/ s.status = FAILED /\ s.attempt_count < limit
        i == FirstWhere(q, Stops)
    IN  IF i = 0 THEN [ret |-> FALSE, stories |-> q]
        ELSE [ret |-> TRUE, stories |-> [q EXCEPT ![i].status = PENDING]]

should_continue_build(q, limit) ==
    LET Stops(s) == \/ s.status = PENDING
                    \/ /\ s.status \in {FAILED, BLOCKED}
                       /\ s.attempt_count < limit
        i == FirstWhere(q, Stops)
    IN  IF i = 0 THEN [ret |-> FALSE, stories |-> q]
        ELSE [ret |-> TRUE, stories |-> [q EXCEPT ![i].status = PENDING]]

(***************************************************************************)
(* BuildLoop.load_prd: how it ends on the file, and the data it returns.   *)
(* A missing file, text that is not JSON, an object without "userStories"  *)
(* and a "userStories" that is not a list raise PRDLoadError; on bytes     *)
(* that are not UTF-8 json.load raises UnicodeDecodeError, which is not a  *)
(* JSONDecodeError; on a JSON scalar the test '"userStories" not in data'  *)
(* raises TypeError.                                                       *)
(***************************************************************************)
load_prd(f) ==
    CASE f.kind = "missing" -> [ends |-> "PRDLoadError", data |-> {}]
      [] f.kind = "not_utf8" -> [ends |-> "UnicodeDecodeError", data |-> {}]
      [] f.kind = "bad_json" -> [ends |-> "PRDLoadError", data |-> {}]
      [] f.kind = "scalar" -> [ends |-> "TypeError", data |-> {}]
      [] f.kind = "no_field" -> [ends |-> "PRDLoadError", data |-> {}]
      [] f.kind = "not_list" -> [ends |-> "PRDLoadError", data |-> {}]
      [] OTHER -> [ends |-> "ok", data |-> {[userStories |-> f.stories]}]

\* A save_prd that writes nothing.
save_prd_nothing(data, f) == f

(***************************************************************************)
(* BuildLoop.save_prd: the file after the call (json.dump with indent=2    *)
(* and a trailing newline); nothing is written while _prd_data is None.    *)
(***************************************************************************)
save_prd(data, f) ==
    IF data = {} THEN f
    ELSE [kind |-> "valid",
          stories |-> (CHOOSE d \in data : TRUE).userStories,
          fmt |-> "indent2"]

(***************************************************************************)
(* BuildLoop.mark_story_passed: _prd_data after the loop over userStories  *)
(* (the first story whose "id" equals story_id gets passes = True).        *)
(***************************************************************************)
\* A mark_story_passed whose loop also clears the flag of the other stories.
set_passes_clears_others(data, story_id) ==
    IF data = {} THEN data
    ELSE LET us == (CHOOSE d \in data : TRUE).userStories
         IN  {[userStories |->
                  [k \in 1..Len(us) |->
                      [us[k] EXCEPT !.passes = {us[k].id = {story_id}}]]]}

\* A mark_story_passed whose loop sets no flag.
set_passes_nothing(data, story_id) == data

set_passes(data, story_id) ==
    IF data = {} THEN data
    ELSE LET us == (CHOOSE d \in data : TRUE).userStories
             HasId(s) == s.id = {story_id}
             i == FirstWhere(us, HasId)
         IN  IF i = 0 THEN data
             ELSE {[userStories |-> [us EXCEPT ![i].passes = {TRUE}]]}

mark_story_passed_saves_first(data, f, story_id) ==
    [prd_data |-> set_passes(data, story_id), file |-> save_prd(data, f)]

\* mark_story_passed as a whole: the new _prd_data and the new file.
mark_story_passed(data, f, story_id) ==
    [prd_data |-> set_passes(data, story_id),
     file |-> save_prd(set_passes(data, story_id), f)]

(***************************************************************************)
(* BuildLoop.get_remaining_count: the stories of _prd_data whose passes is *)
(* not true; 0 while _prd_data is None.                                    *)
(***************************************************************************)
get_remaining_count(data) ==
    IF data = {} THEN 0
    ELSE LET us == (CHOOSE d \in data : TRUE).userStories
         IN  Cardinality({k \in 1..Len(us) : ~Get(us[k].passes, FALSE)})

(***************************************************************************)
(* BuildLoop.implement_story on the collaborators' outcomes: dev is "ok"   *)
(* or "raise" (DeveloperAgent.implement_story), qa is "pass", "fail" or    *)
(* "raise" (QATesterAgent.verify_story, not called when dev raised).  The  *)
(* files the developer wrote at a call are tagged with the call's number.  *)
(* ends is how the call ends ("return": both try blocks catch Exception),  *)
(* verified whether verify_story was called.                               *)
(***************************************************************************)
Outcomes == {<<"raise", "none">>, <<"ok", "pass">>, <<"ok", "fail">>, <<"ok", "raise">>}

implement_story_verifier_uncaught(o, n) ==
    CASE o[1] = "raise" ->
            [ends |-> "return", verified |-> FALSE,
             success |-> FALSE, written_files |-> <<>>,
             failure_reason |-> "Implementation failed"]
      [] o[2] = "pass" ->
            [ends |-> "return", verified |-> TRUE,
             success |-> TRUE, written_files |-> <<n>>, failure_reason |-> ""]
      [] o[2] = "fail" ->
            [ends |-> "return", verified |-> TRUE,
             success |-> FALSE, written_files |-> <<n>>,
             failure_reason |-> "Verification failed"]
      [] OTHER ->
            [ends |-> "raise", verified |-> TRUE,
             success |-> FALSE, written_files |-> <<n>>,
             failure_reason |-> ""]

implement_story(o, n) ==
    CASE o[1] = "raise" ->
            [ends |-> "return", verified |-> FALSE,
             success |-> FALSE, written_files |-> <<>>,
             failure_reason |-> "Implementation failed"]
      [] o[2] = "pass" ->
            [ends |-> "return", verified |-> TRUE,
             success |-> TRUE, written_files |-> <<n>>, failure_reason |-> ""]
      [] o[2] = "fail" ->
            [ends |-> "return", verified |-> TRUE,
             success |-> FALSE, written_files |-> <<n>>,
             failure_reason |-> "Verification failed"]
      [] OTHER ->
            [ends |-> "return", verified |-> TRUE,
             success |-> FALSE, written_files |-> <<n>>,
             failure_reason |-> "Verification error"]

(***************************************************************************)
(* run_story_with_retries, line 251: 'for attempt in range(1, max_retries  *)
(* + 1)' has another pass after `done` passes.                             *)
(***************************************************************************)
has_next_attempt_one_more(done, limit) == done <= limit

has_next_attempt(done, limit) == done < limit

(***************************************************************************)
(* BuildResult                                                             *)
(***************************************************************************)
BuildResult(s, total, completed, failed, ids, errs) ==
    [success |-> s, total_stories |-> total, completed_stories |-> completed,
     failed_stories |-> failed, failed_story_ids |-> ids, errors |-> errs]

Count(seq, P(_)) == Cardinality({i \in 1..Len(seq) : P(seq[i])})

\* Calls of implement_story made so far for the story at queue position i.
ImplCalls(i) == LET IsI(x) == x = i IN Count(impl_log, IsI)

(***************************************************************************)
(* The state when BuildLoop.run() is called.                               *)
(***************************************************************************)
Init ==
    /\ file \in FileChoices
    /\ max_retries \in 0..MaxRetries
    /\ prd_data = {}
    /\ stories = <<>>
    /\ current_story_index = -1
    /\ pc = "start"
    /\ story = 0
    /\ attempt = 0
    /\ success = FALSE
    /\ written_files = <<>>
    /\ completed_count = 0
    /\ failed_story_ids = <<>>
    /\ errors = <<>>
    /\ total_stories = 0
    /\ failure_reason = ""
    /\ result = {}
    /\ impl_log = <<>>
    /\ all_passed = TRUE
    /\ agent_calls = <<>>
    /\ initial_stories = <<>>
    /\ calls = 0

(***************************************************************************)
(* run(), lines 293-323: load_prd, load_stories and the counters.  Only    *)
(* PRDLoadError is caught; another exception of load_prd leaves run(), and *)
(* so does the TypeError of load_stories (line 307, outside the try).      *)
(***************************************************************************)
RunLoad ==
    /\ pc = "start"
    /\ LET r == load_prd(file)
       IN  CASE r.ends = "PRDLoadError" ->
                  /\ result' = {BuildResult(FALSE, 0, 0, 0, <<>>, <<"PRDLoadError">>)}
                  /\ pc' = "done"
                  /\ UNCHANGED <<prd_data, stories, current_story_index,
                                 completed_count, total_stories,
                                 initial_stories>>
             [] r.ends \in {"TypeError", "UnicodeDecodeError"} ->
                  /\ pc' = "raised"
                  /\ UNCHANGED <<prd_data, stories, current_story_index,
                                 completed_count, total_stories,
                                 initial_stories, result>>
             [] OTHER ->
                  LET us == (CHOOSE d \in r.data : TRUE).userStories
                      q == load_from_prd(us, current_story_index)
                      Passes(s) == Get(s.passes, FALSE)
                  IN  /\ prd_data' = r.data
                      /\ stories' = q.stories
                      /\ current_story_index' = q.current_story_index
                      /\ initial_stories' = us
                      /\ IF q.ends = "ok"
                         THEN /\ total_stories' = Len(us)
                              /\ completed_count' = Count(us, Passes)
                              /\ pc' = "select"
                         ELSE /\ pc' = "raised"
                              /\ UNCHANGED <<total_stories, completed_count>>
                      /\ UNCHANGED result
    /\ UNCHANGED <<file, max_retries, story, attempt, success, written_files,
                   failed_story_ids, errors, failure_reason, impl_log,
                   all_passed, agent_calls, calls>>

(***************************************************************************)
(* run(), lines 326-357: the selection, the skip test and the lookup of    *)
(* the story's record.                                                     *)
(***************************************************************************)
RunSelect ==
    /\ pc = "select"
    /\ LET r == ScrumMaster_get_next_story(stories, current_story_index)
           st == r.stories[r.story]
           HasId(s) == s.id = {st.id}
           us == (CHOOSE d \in prd_data : TRUE).userStories
       IN  /\ stories' =
                 IF /\ r.story # 0
                    /\ ~(st.status = FAILED /\ st.attempt_count >= max_retries)
                    /\ (prd_data = {} \/ FirstWhere(us, HasId) = 0)
                 THEN mark_story_failed(r.stories, st.id, "Story not found in PRD")
                 ELSE r.stories
           /\ current_story_index' = r.current_story_index
           /\ CASE r.story = 0 ->
                    /\ pc' = "finish"
                    /\ UNCHANGED <<story, failed_story_ids>>
               [] r.story # 0
                  /\ st.status = FAILED /\ st.attempt_count >= max_retries ->
                    /\ pc' = "select"
                    /\ UNCHANGED <<story, failed_story_ids>>
               [] r.story # 0
                  /\ ~(st.status = FAILED /\ st.attempt_count >= max_retries)
                  /\ (prd_data = {} \/ FirstWhere(us, HasId) = 0) ->
                    /\ pc' = "select"
                    /\ failed_story_ids' = Append(failed_story_ids, st.id)
                    /\ UNCHANGED story
               [] OTHER ->
                    /\ pc' = "attempt"
                    /\ story' = r.story
                    /\ UNCHANGED failed_story_ids
    /\ attempt' = 0
    /\ UNCHANGED <<file, prd_data, max_retries, success, written_files,
                   completed_count, errors, total_stories, result,
                   impl_log, failure_reason, all_passed, agent_calls, loaded>>

\* A failed attempt after which the QA agent is not reset.
after_failed_attempt_no_qa_reset(log) == Append(log, "clear_history")

(***************************************************************************)
(* run_story_with_retries, lines 263-267: what follows an attempt that     *)
(* failed, on the calls made to the agents (developer_agent.clear_history  *)
(* and qa_agent.reset only empty the agents' own state).                   *)
(***************************************************************************)
after_failed_attempt(log) == Append(Append(log, "clear_history"), "reset")

(***************************************************************************)
(* run_story_with_retries, lines 251-267: one pass of the for loop.        *)
(***************************************************************************)
RunAttempt ==
    /\ pc = "attempt"
    /\ has_next_attempt(attempt, max_retries)
    /\ \E o \in Outcomes :
          LET r == implement_story(o, attempt + 1)
          IN  /\ attempt' = attempt + 1
              /\ impl_log' = Append(impl_log, story)
              /\ all_passed' = (all_passed /\ r.success)
              /\ failure_reason' = r.failure_reason
              /\ CASE r.ends = "raise" ->
                        /\ agent_calls' = Append(agent_calls, "implement_story")
                        /\ pc' = "raised"
                        /\ UNCHANGED <<success, written_files>>
                   [] r.ends = "return" /\ r.success ->
                        /\ agent_calls' = Append(agent_calls, "implement_story")
                        /\ success' = TRUE
                        /\ written_files' = r.written_files
                        /\ pc' = "returned"
                   [] OTHER ->
                        /\ agent_calls' = after_failed_attempt(
                                              Append(agent_calls, "implement_story"))
                        /\ pc' = "attempt"
                        /\ UNCHANGED <<success, written_files>>
    /\ UNCHANGED <<file, prd_data, max_retries, stories, current_story_index,
                   story, completed_count, failed_story_ids, errors,
                   total_stories, result, loaded>>

(***************************************************************************)
(* run_story_with_retries, lines 269-274: the for loop is exhausted.       *)
(***************************************************************************)
RunExhausted ==
    /\ pc = "attempt"
    /\ ~has_next_attempt(attempt, max_retries)
    /\ success' = FALSE
    /\ written_files' = <<>>
    /\ pc' = "returned"
    /\ UNCHANGED <<file, prd_data, max_retries, stories, current_story_index,
                   story, attempt, completed_count, failed_story_ids, errors,
                   total_stories, result, impl_log, failure_reason,
                   all_passed, agent_calls, loaded>>

(***************************************************************************)
(* run(), line 364: mark_story_passed (the record and the file).           *)
(***************************************************************************)
RunMarkPassed ==
    /\ pc = "returned"
    /\ success
    /\ LET r == mark_story_passed(prd_data, file, stories[story].id)
       IN  /\ prd_data' = r.prd_data
           /\ file' = r.file
    /\ pc' = "mark_completed"
    /\ UNCHANGED <<max_retries, stories, current_story_index, story, attempt,
                   success, written_files, completed_count, failed_story_ids,
                   errors, total_stories, result, impl_log, failure_reason,
                   all_passed, agent_calls, loaded>>

(***************************************************************************)
(* run(), lines 365-367: mark_story_completed and the count.               *)
(***************************************************************************)
RunMarkCompleted ==
    /\ pc = "mark_completed"
    /\ stories' = mark_story_completed(stories, stories[story].id)
    /\ completed_count' = completed_count + 1
    /\ pc' = "commit"
    /\ UNCHANGED <<file, prd_data, max_retries, current_story_index, story,
                   attempt, success, written_files, failed_story_ids, errors,
                   total_stories, result, impl_log, failure_reason,
                   all_passed, agent_calls, loaded>>

(***************************************************************************)
(* run(), line 370: auto_commit_story returns a GitResult whether git      *)
(* worked or not (it raises nothing), and run() does not read the result:  *)
(* the queue after the call is the queue before it.                        *)
(***************************************************************************)
auto_commit_story(git_ok) == [success |-> git_ok]

after_commit_fails_story(q, story_id, r) ==
    IF r.success THEN q ELSE mark_story_failed(q, story_id, "commit failed")

after_commit(q, story_id, r) == q

RunCommit ==
    /\ pc = "commit"
    /\ \E git_ok \in BOOLEAN :
          stories' = after_commit(stories, stories[story].id,
                                  auto_commit_story(git_ok))
    /\ pc' = "check"
    /\ UNCHANGED <<file, prd_data, max_retries, current_story_index,
                   story, attempt, success, written_files, completed_count,
                   failed_story_ids, errors, total_stories, result,
                   impl_log, failure_reason, all_passed, agent_calls, loaded>>

(***************************************************************************)
(* run(), lines 371-378: the story failed.                                 *)
(***************************************************************************)
RunMarkFailed ==
    /\ pc = "returned"
    /\ ~success
    /\ stories' = mark_story_failed(stories, stories[story].id,
                                    "Failed after max_retries attempts")
    /\ failed_story_ids' = Append(failed_story_ids, stories[story].id)
    /\ errors' = Append(errors, stories[story].id \o ": Failed after max_retries attempts")
    /\ pc' = "check"
    /\ UNCHANGED <<file, prd_data, max_retries, current_story_index, story,
                   attempt, success, written_files, completed_count,
                   total_stories, result, impl_log, failure_reason,
                   all_passed, agent_calls, loaded>>

(***************************************************************************)
(* run(), lines 381-387: should_continue.  The locals of the iteration are *)
(* dead from here on (each is assigned before it is read again) and are    *)
(* put back to their initial values.                                       *)
(***************************************************************************)
RunShouldContinue ==
    /\ pc = "check"
    /\ LET r == should_continue_build(stories, max_retries)
       IN  /\ stories' = r.stories
           /\ pc' = IF r.ret THEN "select" ELSE "finish"
    /\ story' = 0
    /\ attempt' = 0
    /\ success' = FALSE
    /\ written_files' = <<>>
    /\ failure_reason' = ""
    /\ agent_calls' = <<>>
    /\ UNCHANGED <<file, prd_data, max_retries, current_story_index,
                   completed_count, failed_story_ids, errors, total_stories,
                   result, impl_log, all_passed, loaded>>

(***************************************************************************)
(* run(), lines 393-403: the BuildResult.                                  *)
(***************************************************************************)
RunFinish ==
    /\ pc = "finish"
    /\ result' = {BuildResult(Len(failed_story_ids) = 0
                                  /\ completed_count = total_stories,
                              total_stories, completed_count,
                              Len(failed_story_ids), failed_story_ids, errors)}
    /\ pc' = "done"
    /\ UNCHANGED <<file, prd_data, max_retries, stories, current_story_index,
                   story, attempt, success, written_files, completed_count,
                   failed_story_ids, errors, total_stories, impl_log,
                   failure_reason, all_passed, agent_calls, loaded>>

Next ==
    \/ RunLoad
    \/ RunSelect
    \/ RunAttempt
    \/ RunExhausted
    \/ RunMarkPassed
    \/ RunMarkCompleted
    \/ RunCommit
    \/ RunMarkFailed
    \/ RunShouldContinue
    \/ RunFinish

Spec == Init /\ [][Next]_vars

\* run() is one sequential call: while it has a next step it takes it.
FairSpec == Spec /\ WF_vars(Next)

(***************************************************************************)
(* run() when a write of the record can fail.  save_prd opens the file     *)
(* with mode "w" and dumps the record: when open raises OSError the file   *)
(* is as it was, when the dump raises the file is truncated.  Neither      *)
(* save_prd, mark_story_passed nor run() catches the exception, so it      *)
(* leaves run() after _prd_data has been changed in memory.                *)
(***************************************************************************)
save_prd_fails(data, f) ==
    {f, [kind |-> "bad_json", stories |-> <<>>, fmt |-> "truncated"]}

RunMarkPassedFails ==
    /\ pc = "returned"
    /\ success
    /\ prd_data' = set_passes(prd_data, stories[story].id)
    /\ file' \in save_prd_fails(prd_data', file)
    /\ pc' = "raised"
    /\ UNCHANGED <<max_retries, stories, current_story_index, story, attempt,
                   success, written_files, completed_count, failed_story_ids,
                   errors, total_stories, result, impl_log, failure_reason,
                   all_passed, agent_calls, loaded>>

NextIO ==
    \/ Next
    \/ RunMarkPassedFails

SpecIO == Init /\ [][NextIO]_vars

(***************************************************************************)
(* The loaded objects under any order of calls: the state after load_prd   *)
(* and load_stories on a valid file whose stories load_stories could sort, *)
(* then the operations of BuildLoop and ScrumMasterAgent applied in any    *)
(* order, MaxCalls calls at most.                                          *)
(***************************************************************************)
ArgIds == {IdOf(i) : i \in 1..MaxStories} \cup {"", "unknown"}

InitApi ==
    /\ file \in [kind : {"valid"}, stories : UserStoriesChoices, fmt : {"as_found"}]
    /\ load_from_prd(file.stories, -1).ends = "ok"
    /\ max_retries = MaxRetries
    /\ prd_data = load_prd(file).data
    /\ stories = load_from_prd(file.stories, -1).stories
    /\ current_story_index = load_from_prd(file.stories, -1).current_story_index
    /\ pc = "api"
    /\ story = 0
    /\ attempt = 0
    /\ success = FALSE
    /\ written_files = <<>>
    /\ completed_count = 0
    /\ failed_story_ids = <<>>
    /\ errors = <<>>
    /\ total_stories = Len(file.stories)
    /\ failure_reason = ""
    /\ result = {}
    /\ impl_log = <<>>
    /\ all_passed = TRUE
    /\ agent_calls = <<>>
    /\ initial_stories = file.stories
    /\ calls = 0

\* What no operation of the queue or of the record touches.
run_locals == <<max_retries, pc, story, attempt, success, written_files,
                completed_count, failed_story_ids, errors, total_stories,
                failure_reason, result, impl_log, all_passed, agent_calls,
                initial_stories>>

ApiCall ==
    /\ pc = "api"
    /\ calls < MaxCalls
    /\ calls' = calls + 1
    /\ UNCHANGED run_locals

ApiMarkStoryPassed(id) ==
    /\ ApiCall
    /\ LET r == mark_story_passed(prd_data, file, id)
       IN  /\ prd_data' = r.prd_data
           /\ file' = r.file
    /\ UNCHANGED <<stories, current_story_index>>

ApiGetNextStory ==
    /\ ApiCall
    /\ LET r == ScrumMaster_get_next_story(stories, current_story_index)
       IN  /\ stories' = r.stories
           /\ current_story_index' = r.current_story_index
    /\ UNCHANGED <<file, prd_data>>

ApiMarkStoryCompleted(id) ==
    /\ ApiCall
    /\ stories' = mark_story_completed(stories, id)
    /\ UNCHANGED <<file, prd_data, current_story_index>>

ApiMarkStoryFailed(id) ==
    /\ ApiCall
    /\ stories' = mark_story_failed(stories, id, "reason")
    /\ UNCHANGED <<file, prd_data, current_story_index>>

ApiMarkStoryBlocked(id) ==
    /\ ApiCall
    /\ stories' = mark_story_blocked(stories, id, "blocker")
    /\ UNCHANGED <<file, prd_data, current_story_index>>

ApiRetryStory(id) ==
    /\ ApiCall
    /\ stories' = retry_story(stories, id).stories
    /\ UNCHANGED <<file, prd_data, current_story_index>>

ApiShouldContinueBuild(limit) ==
    /\ ApiCall
    /\ stories' = should_continue_build(stories, limit).stories
    /\ UNCHANGED <<file, prd_data, current_story_index>>

\* ScrumMasterAgent.load_stories on the record BuildLoop holds.
ApiLoadStories ==
    /\ ApiCall
    /\ LET q == load_from_prd((CHOOSE d \in prd_data : TRUE).userStories,
                              current_story_index)
       IN  /\ stories' = q.stories
           /\ current_story_index' = q.current_story_index
    /\ UNCHANGED <<file, prd_data>>

NextApi ==
    \/ ApiLoadStories
    \/ ApiGetNextStory
    \/ \E limit \in 0..MaxRetries : ApiShouldContinueBuild(limit)
    \/ \E id \in ArgIds : ApiMarkStoryPassed(id)
    \/ \E id \in ArgIds : ApiMarkStoryCompleted(id)
    \/ \E id \in ArgIds : ApiMarkStoryFailed(id)
    \/ \E id \in ArgIds : ApiMarkStoryBlocked(id)
    \/ \E id \in ArgIds : ApiRetryStory(id)

SpecApi == InitApi /\ [][NextApi]_vars

(***************************************************************************)
(* Properties of run() and of the loaded objects.                          *)
(***************************************************************************)
Max(a, b) == IF a >= b THEN a ELSE b

\* run() loaded its record.
Loaded == prd_data # {}

\* Every story of the record has an id and no two stories share one.
UniqueIds ==
    \A i \in 1..Len(initial_stories) :
        /\ initial_stories[i].id # {}
        /\ \A j \in 1..Len(initial_stories) :
              j # i => initial_stories[j].id # initial_stories[i].id

Returned == pc = "done" /\ result # {}

TheResult == CHOOSE r \in result : TRUE

Occurrences(seq, x) == LET IsX(y) == y = x IN Count(seq, IsX)

C2_AttemptsWithinMaxRetries ==
    UniqueIds => \A i \in 1..Len(stories) : ImplCalls(i) <= max_retries

\* C3: a run that loaded its record returns success = true exactly when
\* every story of the queue ends COMPLETED.
C3_SuccessIffAllCompleted ==
    (Returned /\ Loaded /\ UniqueIds) =>
        (TheResult.success <=>
            \A i \in 1..Len(stories) : stories[i].status = COMPLETED)

\* C4: failed_story_ids holds the id of each story that ended FAILED exactly
\* once, no id twice, and failed_stories is the number of FAILED stories.
C4_FailedIdsOncePerFailedStory ==
    (Returned /\ Loaded /\ UniqueIds) =>
        LET IsFailed(s) == s.status = FAILED
        IN  /\ \A i \in 1..Len(stories) :
                  IsFailed(stories[i]) =>
                      Occurrences(TheResult.failed_story_ids, stories[i].id) = 1
            /\ \A k \in 1..Len(TheResult.failed_story_ids) :
                  Occurrences(TheResult.failed_story_ids,
                              TheResult.failed_story_ids[k]) = 1
            /\ TheResult.failed_stories = Count(stories, IsFailed)

C6_RetriesExact ==
    /\ pc \in {"attempt", "returned"} =>
          /\ attempt <= Len(impl_log)
          /\ \A k \in 1..attempt : impl_log[Len(impl_log) - attempt + k] = story
    /\ (pc = "attempt" /\ attempt >= 1) =>
          (failure_reason # "" /\ attempt <= max_retries)
    /\ (pc = "returned" /\ success) =>
          /\ attempt \in 1..max_retries
          /\ failure_reason = ""
          /\ written_files = <<attempt>>
    /\ (pc = "returned" /\ ~success) =>
          (attempt = max_retries /\ written_files = <<>>)

\* The call returned success at its second attempt.
C6_Witness == pc = "returned" /\ success /\ attempt = 2

\* The priority from_prd_story gives the record entry behind queue position i.
RecordPriority(i) ==
    Get(initial_stories[stories[i].title].priority, JInt(DefaultPriority))

\* Position i comes before position j in ascending priority, record order
\* breaking ties.
Before(i, j) ==
    \/ lt(RecordPriority(i), RecordPriority(j))
    \/ /\ RecordPriority(i) = RecordPriority(j)
       /\ stories[i].title < stories[j].title

\* C7: in every queue state reached after load, BuildQueue.get_next_story
\* returns the PENDING story of smallest priority, the first in the record
\* among equals, and None exactly when no story is PENDING.
C7_NextPendingIsLowestPriority ==
    LET next == BuildQueue_get_next_story(stories, current_story_index).story
        Pending == {i \in 1..Len(stories) : stories[i].status = PENDING}
    IN  pc = "api" =>
            IF Pending = {} THEN next = 0
            ELSE /\ next \in Pending
                 /\ \A j \in Pending \ {next} : Before(next, j)

\* The sort moved the first record entry behind the second, whose story is
\* no longer PENDING: the next story is the first record entry.
C7_Witness ==
    /\ pc = "api" /\ calls >= 1
    /\ Len(stories) = 2
    /\ stories[1].status # PENDING
    /\ stories[2].title = 1
    /\ BuildQueue_get_next_story(stories, current_story_index).story = 2

\* The story at queue position i was not passed when the record was loaded.
InitiallyPending(i) == ~Get(initial_stories[stories[i].title].passes, FALSE)

\* C8: when every story passes on its first attempt, run() attempts each
\* story that was pending at load exactly once, in ascending priority
\* (record order for ties) and no other story, and returns success with
\* completed_stories = total_stories and no failed story.
C8_AllPassFirstAttempt ==
    (/\ Returned /\ Loaded /\ all_passed
     /\ \A i \in 1..Len(stories) : InitiallyPending(i) => ImplCalls(i) >= 1)
    => /\ \A i \in 1..Len(stories) :
             ImplCalls(i) = IF InitiallyPending(i) THEN 1 ELSE 0
       /\ \A k, l \in 1..Len(impl_log) :
             k < l => Before(impl_log[k], impl_log[l])
       /\ TheResult.success
       /\ TheResult.completed_stories = TheResult.total_stories
       /\ TheResult.total_stories = Len(initial_stories)
       /\ TheResult.failed_stories = 0
       /\ TheResult.failed_story_ids = <<>>

\* Both stories passed at once, the second record entry first.
C8_Witness ==
    /\ Returned /\ Loaded /\ all_passed
    /\ Len(impl_log) = 2
    /\ stories[impl_log[1]].title = 2

\* C9: on a missing file, on text that is not JSON, on a document without
\* 'userStories' and on a 'userStories' that is not a list, run() returns a
\* BuildResult with zero counts, success = false and an error, having
\* called no agent and written nothing.
C9_MalformedRecordReturnsResult ==
    (file.kind # "valid" /\ pc # "start") =>
        /\ Returned
        /\ TheResult.total_stories = 0
        /\ TheResult.completed_stories = 0
        /\ TheResult.failed_stories = 0
        /\ ~TheResult.success
        /\ TheResult.errors # <<>>
        /\ impl_log = <<>>
        /\ file.fmt = "as_found"

\* No two stories of the record share an id (a story may lack one).
NoSharedIds ==
    \A i, j \in 1..Len(initial_stories) :
        (i # j /\ initial_stories[i].id # {}) =>
            initial_stories[j].id # initial_stories[i].id

UserStoriesOf(data) == (CHOOSE d \in data : TRUE).userStories

\* C10: on a loaded record whose ids are unique, after mark_story_passed(id)
\* the record read back from the file has passes = true for the story with
\* that id and every other story and field as before the call (in memory
\* and in the file); a second call, or an id no story has, leaves the
\* stored record as it was.
C10_MarkPassedFrame ==
    (pc = "api" /\ NoSharedIds) =>
        \A id \in ArgIds :
            LET us == UserStoriesOf(prd_data)
                r == mark_story_passed(prd_data, file, id)
                back == load_prd(r.file)
                again == mark_story_passed(r.prd_data, r.file, id)
            IN  /\ load_prd(file).data = prd_data
                /\ back.ends = "ok"
                /\ Len(UserStoriesOf(back.data)) = Len(us)
                /\ \A j \in 1..Len(us) :
                      UserStoriesOf(back.data)[j] =
                          IF us[j].id = {id}
                          THEN [us[j] EXCEPT !.passes = {TRUE}]
                          ELSE us[j]
                /\ load_prd(again.file).data = back.data
                /\ (\A j \in 1..Len(us) : us[j].id # {id}) =>
                      back.data = load_prd(file).data

\* mark_story_passed has written a record in which a story that was loaded
\* with passes = false now passes.
C10_Witness ==
    /\ pc = "api" /\ NoSharedIds
    /\ file.fmt = "indent2"
    /\ Len(initial_stories) = 2
    /\ \E j \in 1..2 :
          /\ initial_stories[j].passes = {FALSE}
          /\ file.stories[j].passes = {TRUE}


\* The passes flag, in the file, of the record entry behind queue position i.
StoredPasses(i) ==
    /\ file.kind = "valid"
    /\ stories[i].title <= Len(file.stories)
    /\ Get(file.stories[stories[i].title].passes, FALSE)

Exhausted(i) ==
    stories[i].status = FAILED /\ stories[i].attempt_count = max_retries

\* C12: within one run a story that is FAILED with attempt_count =
\* max_retries is not the story BuildQueue.get_next_story returns, and no
\* step of the run makes it PENDING, selects it or attempts it again.
C12_ExhaustedNeverReselected ==
    [][\A i \in 1..Len(stories) :
          Exhausted(i) =>
              /\ BuildQueue_get_next_story(stories, current_story_index).story # i
              /\ stories'[i].status \notin {PENDING, IN_PROGRESS}
              /\ stories'[i].attempt_count = stories[i].attempt_count
              /\ ImplCalls(i)' = ImplCalls(i)]_vars

\* The run returned after a story was selected twice, attempted twice at
\* each selection, and left FAILED with attempt_count = max_retries = 2.
C12_Witness ==
    /\ Returned /\ max_retries = 2
    /\ \E i \in 1..Len(stories) : Exhausted(i) /\ ImplCalls(i) = 4


\* C13: no step of run() (which never calls retry_story) changes a FAILED
\* or BLOCKED story to PENDING; stated for records with unique ids, where
\* each mark_story_* call of run() acts on the selected story.
C13_OnlyRetryStoryResets ==
    [][\A i \in 1..Len(stories) :
          (UniqueIds /\ stories[i].status \in {FAILED, BLOCKED}) =>
              stories'[i].status # PENDING]_vars


\* The queue with FAILED and BLOCKED exchanged.
SwapFailedBlocked(q) ==
    [i \in 1..Len(q) |->
        [q[i] EXCEPT !.status = IF @ = FAILED THEN BLOCKED
                                ELSE IF @ = BLOCKED THEN FAILED ELSE @]]

\* C14: in every queue state and for every max_retries, should_continue
\* returns true exactly when some story is PENDING or some FAILED or BLOCKED
\* story has attempt_count < max_retries, and returns the same with FAILED
\* and BLOCKED exchanged.
C14_ShouldContinueIff ==
    \A limit \in 0..MaxRetries :
        /\ should_continue_build(stories, limit).ret <=>
              \E i \in 1..Len(stories) :
                  \/ stories[i].status = PENDING
                  \/ /\ stories[i].status \in {FAILED, BLOCKED}
                     /\ stories[i].attempt_count < limit
        /\ should_continue_build(SwapFailedBlocked(stories), limit).ret =
              should_continue_build(stories, limit).ret

\* No story is PENDING and a BLOCKED story was selected once: the answer is
\* true for max_retries = 2 and false for max_retries = 1.
C14_Witness ==
    /\ pc = "api"
    /\ \A i \in 1..Len(stories) : stories[i].status # PENDING
    /\ \E i \in 1..Len(stories) :
          stories[i].status = BLOCKED /\ stories[i].attempt_count = 1
    /\ should_continue_build(stories, 2).ret
    /\ ~should_continue_build(stories, 1).ret


\* C15: once a story has been attempted the run is never left by an
\* exception, so that a write of the record that fails while a story is
\* marked passed ends in a returned BuildResult (success = false, the error
\* in errors).
C15_WriteFailureReturnsResult == impl_log # <<>> => pc # "raised"


\* C16: whatever the Implementer and the Verifier do, implement_story
\* returns; when the Implementer raises the attempt fails with a reason and
\* the Verifier is not called; when the Verifier raises the attempt ends as
\* on a fail verdict (failure, the files written, a reason); and in run()
\* a failed attempt with attempts left is followed by the next attempt.
C16_CollaboratorFailuresContained ==
    /\ \A o \in Outcomes, n \in 1..MaxRetries :
          LET r == implement_story(o, n)
              onFail == implement_story(<<"ok", "fail">>, n)
          IN  /\ r.ends = "return"
              /\ o[1] = "raise" =>
                    (~r.success /\ r.failure_reason # "" /\ ~r.verified)
              /\ o = <<"ok", "raise">> =>
                    /\ r.success = onFail.success
                    /\ r.written_files = onFail.written_files
                    /\ r.verified /\ r.failure_reason # ""
    /\ (pc = "attempt" /\ attempt >= 1) =>
          /\ failure_reason # "" /\ ~success
          /\ attempt < max_retries => ENABLED RunAttempt
    /\ impl_log # <<>> => pc # "raised"

\* The Implementer raised at the first attempt and a second attempt follows.
C16_Witness ==
    /\ pc = "attempt" /\ attempt = 1
    /\ failure_reason = "Implementation failed"
    /\ ENABLED RunAttempt


\* C17: in every state reached by load_stories, get_next_story,
\* mark_story_completed, mark_story_failed, mark_story_blocked, retry_story
\* and should_continue_build in any order, a COMPLETED story has no blockers.
C17_CompletedHasNoBlockers ==
    \A i \in 1..Len(stories) :
        stories[i].status = COMPLETED => stories[i].blockers = <<>>

\* Two calls that only touched one story, which was loaded as PENDING and
\* is now COMPLETED without having been selected or failed (among them:
\* mark_story_blocked, then mark_story_completed).
C17_Witness ==
    /\ pc = "api" /\ calls = 2
    /\ \E i \in 1..Len(stories) :
          /\ InitiallyPending(i)
          /\ stories[i].status = COMPLETED
          /\ stories[i].attempt_count = 0
          /\ stories[i].failure_reasons = <<>>
          /\ stories[i].blockers = <<>>


InProgress == {i \in 1..Len(stories) : stories[i].status = IN_PROGRESS}

\* C18: on a record with unique ids at most one story is IN_PROGRESS at any
\* point of a run; from its selection until it is marked, the story the
\* Implementer and Verifier are called for is that story; and no story is
\* IN_PROGRESS when the next one is selected or when the run returns.
C18_AtMostOneInProgress ==
    (Loaded /\ UniqueIds) =>
        /\ Cardinality(InProgress) <= 1
        /\ pc \in {"attempt", "returned", "mark_completed"} =>
              InProgress = {story}
        /\ pc \in {"select", "finish", "done"} => InProgress = {}

\* The second story of the queue is being attempted after the first was
\* selected and moved to COMPLETED or FAILED.
C18_Witness ==
    /\ Loaded /\ UniqueIds
    /\ pc = "attempt" /\ story = 2
    /\ stories[1].attempt_count >= 1
    /\ stories[1].status \in {COMPLETED, FAILED}
    /\ InProgress = {2}


\* What a step of the run leaves alone in a story that is COMPLETED: its
\* status, its attempt_count (it is not selected) and the implement_story
\* calls made for it.
CompletedIsFinal ==
    \A i \in 1..Len(stories) :
        stories[i].status = COMPLETED =>
            /\ stories'[i].status = COMPLETED
            /\ stories'[i].attempt_count = stories[i].attempt_count
            /\ ImplCalls(i)' = ImplCalls(i)

\* C19 (as amended): on a record with unique ids a COMPLETED story is never
\* selected nor attempted and stays COMPLETED, whether it was loaded with
\* passes = true (no attempt at all in the run) or completed during the run.
C19_CompletedNeverSelected ==
    [][UniqueIds => CompletedIsFinal]_vars

\* C19 (as claimed, for every record): a COMPLETED story is never selected
\* nor attempted and stays COMPLETED.
C19_AsClaimed ==
    [][CompletedIsFinal]_vars

\* The run returned: the first story was completed at its first attempt and
\* the second went through two selections of two attempts after that.
C19_Witness ==
    /\ Returned /\ UniqueIds /\ max_retries = 2
    /\ Len(stories) = 2
    /\ InitiallyPending(1)
    /\ stories[1].status = COMPLETED
    /\ ImplCalls(1) = 1
    /\ ImplCalls(2) = 4


\* The file shows a story with the id as passed.
StoredPassesId(story_id) ==
    /\ file.kind = "valid"
    /\ \E k \in 1..Len(file.stories) :
          file.stories[k].id = {story_id} /\ Get(file.stories[k].passes, FALSE)

\* What holds of the steps around the commit: the commit is reached from
\* mark_story_completed only, every completion goes on to it, and when it
\* is called the attempt has passed, the file shows the story's id as
\* passed, a story with the id is COMPLETED (the selected story itself when
\* ids are unique), and the call leaves the queue, the record, the file and
\* everything the BuildResult is made of as they were.
CommitAfterCompletion ==
    /\ pc' = "commit" => pc = "mark_completed"
    /\ pc = "mark_completed" =>
          (pc' = "commit" /\ completed_count' = completed_count + 1)
    /\ pc = "commit" =>
          /\ success /\ failure_reason = ""
          /\ StoredPassesId(stories[story].id)
          /\ \E i \in 1..Len(stories) :
                stories[i].id = stories[story].id /\ stories[i].status = COMPLETED
          /\ UniqueIds =>
                (StoredPasses(story) /\ stories[story].status = COMPLETED)
          /\ pc' = "check"
          /\ UNCHANGED <<stories, file, prd_data, completed_count,
                         failed_story_ids, errors, total_stories>>

\* C20: the commit is called only for a story whose attempt passed, once
\* per completion, after the record with passes = true for its id was
\* written and the story marked COMPLETED, and whether it reports success
\* or failure changes nothing of the queue, the record or the BuildResult.
C20_CommitFrame == [][CommitAfterCompletion]_vars

\* The commit has just been called for a story completed in this run.
C20_Witness ==
    /\ Loaded /\ UniqueIds
    /\ pc = "check" /\ success
    /\ completed_count >= 1
    /\ stories[story].status = COMPLETED
    /\ StoredPasses(story)



\* C21: on a record with unique ids and max_retries >= 1, whenever the loop
\* is between two stories (before a selection, after a story was marked, at
\* the end of the run) every story's attempt_count equals the number of
\* implement_story calls made for it.
C21_AttemptCountIsAttempts ==
    (/\ Loaded /\ UniqueIds /\ max_retries >= 1
     /\ pc \in {"select", "check", "finish", "done"}) =>
        \A i \in 1..Len(stories) : stories[i].attempt_count = ImplCalls(i)



\* The record entry behind queue position i has an integer priority.
HasIntPriority(i) ==
    \E p \in initial_stories[stories[i].title].priority : p.type = "int"

\* C22: loading a valid record never fails, whatever its priorities: a
\* story whose priority is absent, null or a string gets priority 999 in
\* the queue and stands after every story with an integer priority below
\* 999.
C22_BadPriorityDefaults ==
    (file.kind = "valid" /\ pc # "start") =>
        /\ pc # "raised"
        /\ \A i \in 1..Len(stories) :
              ~HasIntPriority(i) =>
                  /\ stories[i].priority = JInt(DefaultPriority)
                  /\ \A j \in 1..Len(stories) :
                        (HasIntPriority(j)
                            /\ stories[j].priority.v < DefaultPriority) => j < i



\* C23: whatever the queue holds, a load_from_prd that returns leaves one
\* story per record entry, in ascending priority with record order among
\* equal priorities, each COMPLETED when its entry has passes = true and
\* PENDING otherwise, with attempt_count 0, no failure reason and no
\* blocker, and a cursor at which get_current_story returns None.
C23_LoadReplacesQueue ==
    pc = "api" =>
        LET us == UserStoriesOf(prd_data)
            r == load_from_prd(us, current_story_index)
            q == r.stories
        IN  r.ends = "ok" =>
              /\ Len(q) = Len(us)
              /\ \A k \in 1..Len(us) : \E i \in 1..Len(q) : q[i].title = k
              /\ \A i \in 1..Len(q) :
                    LET s == us[q[i].title]
                    IN  /\ q[i].id = Get(s.id, "")
                        /\ q[i].priority = Get(s.priority, JInt(DefaultPriority))
                        /\ q[i].status =
                              IF Get(s.passes, FALSE) THEN COMPLETED ELSE PENDING
                        /\ q[i].attempt_count = 0
                        /\ q[i].failure_reasons = <<>>
                        /\ q[i].blockers = <<>>
              /\ \A a, b \in 1..Len(q) :
                    a < b =>
                        /\ ~lt(q[b].priority, q[a].priority)
                        /\ ~lt(q[a].priority, q[b].priority) =>
                              q[a].title < q[b].title
              /\ get_current_story(q, r.current_story_index) = 0

\* Two stories share an id and the sort put the second record entry first;
\* mark_story_passed set passes on the first record entry, and a load after
\* it (the one operation that completes a story other than the first with
\* the id) made that entry's story COMPLETED, at the second position, with
\* the cursor unset.
C23_Witness ==
    /\ pc = "api" /\ calls = 2
    /\ Len(stories) = 2
    /\ stories[1].title = 2 /\ stories[2].title = 1
    /\ stories[1].id = stories[2].id
    /\ InitiallyPending(1) /\ InitiallyPending(2)
    /\ stories[1].status = PENDING
    /\ stories[2].status = COMPLETED
    /\ stories[2].attempt_count = 0
    /\ get_current_story(stories, current_story_index) = 0



\* What BuildQueue.get_next_story and ScrumMasterAgent.get_next_story do in
\* the queue state at hand.
SelectionFrame ==
    LET b == BuildQueue_get_next_story(stories, current_story_index)
        s == ScrumMaster_get_next_story(stories, current_story_index)
    IN  /\ b.story = 0 <=>
              \A i \in 1..Len(stories) : stories[i].status # PENDING
        /\ b.story = 0 => b.current_story_index = current_story_index
        /\ b.story # 0 =>
              /\ b.story \in 1..Len(stories)
              /\ stories[b.story].status = PENDING
              /\ get_current_story(stories, b.current_story_index) = b.story
        /\ s.story = b.story
        /\ s.current_story_index = b.current_story_index
        /\ Len(s.stories) = Len(stories)
        /\ \A i \in 1..Len(stories) :
              s.stories[i] =
                  IF i = s.story
                  THEN [stories[i] EXCEPT !.status = IN_PROGRESS,
                                          !.attempt_count = @ + 1]
                  ELSE stories[i]

\* A step that makes a story IN_PROGRESS or raises its attempt_count is a
\* step of ScrumMasterAgent.get_next_story.
OnlySelectionStarts ==
    (\E i \in 1..Len(stories) :
        /\ i <= Len(stories')
        /\ \/ stories'[i].status = IN_PROGRESS /\ stories[i].status # IN_PROGRESS
           \/ stories'[i].attempt_count > stories[i].attempt_count)
    => LET s == ScrumMaster_get_next_story(stories, current_story_index)
       IN  /\ s.story # 0
           /\ stories' = s.stories
           /\ current_story_index' = s.current_story_index

\* C24: BuildQueue.get_next_story returns the first PENDING story with the
\* cursor on it (get_current_story returns it), or None with the cursor
\* where it was, and changes no story; ScrumMasterAgent.get_next_story
\* makes that story IN_PROGRESS with attempt_count one higher and leaves
\* every other story and field as it was; no other operation makes a story
\* IN_PROGRESS or raises an attempt_count.
C24_SelectionFrame ==
    /\ [](pc = "api" => SelectionFrame)
    /\ [][OnlySelectionStarts]_vars

\* The first story was selected once: it is IN_PROGRESS at the cursor, the
\* second is untouched and is the one a new selection would return.
C24_Witness ==
    /\ pc = "api" /\ calls = 1
    /\ Len(stories) = 2
    /\ stories[1].status = IN_PROGRESS /\ stories[1].attempt_count = 1
    /\ get_current_story(stories, current_story_index) = 1
    /\ stories[2].status = PENDING /\ stories[2].attempt_count = 0
    /\ BuildQueue_get_next_story(stories, current_story_index).story = 2



\* A step keeps every story of the queue in its place, with an attempt_count
\* not lower than before and failure_reasons that extend the former ones.
QueueOnlyGrows ==
    /\ Len(stories') = Len(stories)
    /\ \A i \in 1..Len(stories) :
          /\ stories'[i].id = stories[i].id
          /\ stories'[i].title = stories[i].title
          /\ stories'[i].priority = stories[i].priority
          /\ stories'[i].attempt_count >= stories[i].attempt_count
          /\ Len(stories'[i].failure_reasons) >= Len(stories[i].failure_reasons)
          /\ SubSeq(stories'[i].failure_reasons, 1,
                    Len(stories[i].failure_reasons)) = stories[i].failure_reasons

\* C25: every step of a queue or loop operation other than a load keeps
\* the stories of the queue (none added, none removed), never lowers an
\* attempt_count and only appends to failure_reasons; after a load that
\* returned, the queue has total_stories stories.
C25_QueueOnlyGrows ==
    /\ []((Loaded /\ pc \notin {"start", "raised"}) =>
              Len(stories) = total_stories)
    /\ [][RunLoad \/ ApiLoadStories \/ QueueOnlyGrows]_vars

\* A story failed twice (it is the first with its id) and holds both
\* reasons, the other story of the queue being as it was loaded.
C25_Witness ==
    /\ pc = "api" /\ calls = 2
    /\ Len(stories) = 2 /\ total_stories = 2
    /\ \E i, j \in 1..2 :
          /\ i # j
          /\ stories[i].status = FAILED
          /\ Len(stories[i].failure_reasons) = 2
          /\ stories[j].failure_reasons = <<>>
          /\ stories[j].attempt_count = 0



\* The positions of agent_calls at which implement_story was called.
Attempts == {p \in 1..Len(agent_calls) : agent_calls[p] = "implement_story"}

\* C26: inside run_story_with_retries every failed attempt is followed by
\* developer_agent.clear_history and qa_agent.reset before the next attempt
\* begins (or the call returns), the two calls are made only after a failed
\* attempt, and none is made after the attempt that passed.
C26_ResetAfterFailedAttempt ==
    pc \in {"attempt", "returned"} =>
        /\ Cardinality(Attempts) = attempt
        /\ \A p \in 1..Len(agent_calls) :
              /\ (agent_calls[p] = "implement_story" /\ p > 1) =>
                    (/\ p > 3
                     /\ agent_calls[p - 3] = "implement_story"
                     /\ agent_calls[p - 2] = "clear_history"
                     /\ agent_calls[p - 1] = "reset")
              /\ agent_calls[p] = "clear_history" =>
                    (p > 1 /\ agent_calls[p - 1] = "implement_story")
              /\ agent_calls[p] = "reset" =>
                    (p > 1 /\ agent_calls[p - 1] = "clear_history")
        /\ (attempt >= 1 /\ ~(pc = "returned" /\ success)) =>
              /\ Len(agent_calls) = 3 * attempt
              /\ agent_calls[Len(agent_calls)] = "reset"
        /\ (pc = "returned" /\ success) =>
              /\ Len(agent_calls) = 3 * attempt - 2
              /\ agent_calls[Len(agent_calls)] = "implement_story"

\* The first attempt failed, both agents were reset, and the second attempt
\* passed: nothing was called after it.
C26_Witness ==
    /\ pc = "returned" /\ success /\ attempt = 2
    /\ agent_calls = <<"implement_story", "clear_history", "reset",
                       "implement_story">>



\* C27: retry_story(id) returns true exactly when a story with the id is
\* FAILED or BLOCKED, and then makes that story (the first such one, should
\* several share the id) PENDING; for an id no story has and for a story
\* that is PENDING, IN_PROGRESS or COMPLETED it returns false and changes
\* nothing; in every case attempt_count, failure_reasons and blockers of
\* every story and every other story's status are as before.
C27_RetryStory ==
    pc = "api" =>
        \A id \in ArgIds :
            LET r == retry_story(stories, id)
                Retryable == {i \in 1..Len(stories) :
                                 /\ stories[i].id = id
                                 /\ stories[i].status \in {FAILED, BLOCKED}}
            IN  /\ r.ret <=> Retryable # {}
                /\ ~r.ret => r.stories = stories
                /\ Len(r.stories) = Len(stories)
                /\ \A i \in 1..Len(stories) :
                      r.stories[i] =
                          IF i \in Retryable /\ \A j \in Retryable : i <= j
                          THEN [stories[i] EXCEPT !.status = PENDING]
                          ELSE stories[i]

\* A story that was selected and then failed or blocked: retry_story on its
\* id returns true, and returns false on the id of the other story, which
\* is still PENDING.
C27_Witness ==
    /\ pc = "api" /\ NoSharedIds /\ calls = 2
    /\ Len(stories) = 2
    /\ \E i, j \in 1..2 :
          /\ i # j
          /\ stories[i].status \in {FAILED, BLOCKED}
          /\ stories[i].attempt_count = 1
          /\ stories[j].status = PENDING
          /\ retry_story(stories, stories[i].id).ret
          /\ retry_story(stories, stories[i].id).stories[i].status = PENDING
          /\ retry_story(stories, stories[i].id).stories[i].attempt_count = 1
          /\ ~retry_story(stories, stories[j].id).ret



\* C28: on a record with unique ids, when the loop begins an implement
\* attempt on a story, no story before it in the queue (the queue is in
\* priority order) is PENDING or is FAILED with attempt_count < max_retries,
\* and no attempt was made before on a story that comes after it.
C28_WorkedInQueueOrder ==
    [][(UniqueIds /\ impl_log' # impl_log) =>
          /\ \A i \in 1..(story - 1) :
                /\ stories[i].status # PENDING
                /\ ~(stories[i].status = FAILED
                        /\ stories[i].attempt_count < max_retries)
          /\ \A k \in 1..Len(impl_log) : impl_log[k] <= story]_vars

\* The second story is attempted after the first went through both of its
\* selections and was left FAILED.
C28_Witness ==
    /\ UniqueIds /\ max_retries = 2
    /\ pc = "attempt" /\ story = 2 /\ attempt = 1
    /\ stories[1].status = FAILED
    /\ stories[1].attempt_count = 2
    /\ ImplCalls(1) = 4



\* The passes flag, in _prd_data, of the record entry behind queue position i.
MemoryPasses(i) ==
    Get(UserStoriesOf(prd_data)[stories[i].title].passes, FALSE)

\* C29: on a record with unique ids, whenever the loop is about to select
\* and when it has ended, a story's passes flag is true in _prd_data and in
\* the file exactly when the story is COMPLETED in the queue, and
\* get_remaining_count() is the number of stories that are not COMPLETED.
C29_RecordAndQueueInStep ==
    (Loaded /\ UniqueIds /\ pc \in {"select", "finish", "done"}) =>
        /\ \A i \in 1..Len(stories) :
              /\ MemoryPasses(i) <=> stories[i].status = COMPLETED
              /\ StoredPasses(i) <=> stories[i].status = COMPLETED
        /\ get_remaining_count(prd_data) =
              Cardinality({i \in 1..Len(stories) :
                              stories[i].status # COMPLETED})

\* The loop ended with one story completed during the run and the other
\* FAILED: one story remains.
C29_Witness ==
    /\ Loaded /\ UniqueIds /\ pc = "done"
    /\ Len(stories) = 2
    /\ \E i, j \in 1..2 :
          /\ InitiallyPending(i) /\ stories[i].status = COMPLETED
          /\ MemoryPasses(i) /\ StoredPasses(i)
          /\ stories[j].status = FAILED
          /\ ~MemoryPasses(j) /\ ~StoredPasses(j)
    /\ get_remaining_count(prd_data) = 1



\* C30: on a record with unique ids and max_retries >= 1, no story ever has
\* attempt_count > max_retries, and when run() has returned every story is
\* COMPLETED or is FAILED with attempt_count = max_retries.
C30_FinalStatuses ==
    (Loaded /\ UniqueIds /\ max_retries >= 1) =>
        /\ \A i \in 1..Len(stories) : stories[i].attempt_count <= max_retries
        /\ Returned =>
              \A i \in 1..Len(stories) :
                  \/ stories[i].status = COMPLETED
                  \/ /\ stories[i].status = FAILED
                     /\ stories[i].attempt_count = max_retries

\* The run returned with one story COMPLETED at its second selection and
\* the other FAILED after max_retries = 2 selections.
C30_Witness ==
    /\ Returned /\ Loaded /\ UniqueIds /\ max_retries = 2
    /\ Len(stories) = 2
    /\ \E i, j \in 1..2 :
          /\ stories[i].status = COMPLETED /\ stories[i].attempt_count = 2
          /\ stories[j].status = FAILED /\ stories[j].attempt_count = 2



\* The story ScrumMasterAgent.get_next_story returns in the state at hand is
\* IN_PROGRESS with attempt_count >= 1 when run() tests it at line 338.
SelectedIsInProgress ==
    LET r == ScrumMaster_get_next_story(stories, current_story_index)
    IN  r.story # 0 =>
            /\ r.stories[r.story].status = IN_PROGRESS
            /\ r.stories[r.story].attempt_count >= 1
            /\ ~(r.stories[r.story].status = FAILED
                    /\ r.stories[r.story].attempt_count >= max_retries)

\* C31: in every run, a story run() gets from get_next_story is IN_PROGRESS
\* with attempt_count >= 1 when the skip test reads it, so the loop never
\* goes back to the selection through the 'skip failed story' branch (the
\* only selection that goes back to selecting is the one that found no
\* record entry for the story, which adds to failed_story_ids).
C31_SkipBranchNeverTaken ==
    /\ [](pc = "select" => SelectedIsInProgress)
    /\ [][(pc = "select" /\ pc' = "select") =>
              failed_story_ids' # failed_story_ids]_vars

\* A story that had FAILED was selected again: it is IN_PROGRESS with
\* attempt_count = max_retries = 2 and an attempt on it is about to begin.
C31_Witness ==
    /\ pc = "attempt" /\ attempt = 0 /\ max_retries = 2
    /\ stories[story].status = IN_PROGRESS
    /\ stories[story].attempt_count = 2
    /\ stories[story].failure_reasons # <<>>



\* C32: in every queue state and for every max_retries, should_continue_build
\* changes one story at most: when the first story that is PENDING or is
\* FAILED or BLOCKED with attempt_count < max_retries is of the second
\* kind, it returns true and makes that story PENDING, nothing else; when
\* that first story is PENDING it returns true, and when there is no such
\* story it returns false, the queue being as before in both cases.
C32_ShouldContinueFrame ==
    pc = "api" =>
        \A limit \in 0..MaxRetries :
            LET r == should_continue_build(stories, limit)
                Actionable ==
                    {i \in 1..Len(stories) :
                        \/ stories[i].status = PENDING
                        \/ /\ stories[i].status \in {FAILED, BLOCKED}
                           /\ stories[i].attempt_count < limit}
                IsFirst(i) == i \in Actionable /\ \A j \in Actionable : i <= j
            IN  /\ r.ret <=> Actionable # {}
                /\ Len(r.stories) = Len(stories)
                /\ \A i \in 1..Len(stories) :
                      r.stories[i] =
                          IF IsFirst(i) /\ stories[i].status # PENDING
                          THEN [stories[i] EXCEPT !.status = PENDING]
                          ELSE stories[i]
                /\ Cardinality({i \in 1..Len(stories) :
                                   r.stories[i] # stories[i]}) <= 1

\* Both stories are FAILED or BLOCKED and were never selected: with
\* max_retries = 1 the first is made PENDING and the second is left as it
\* is, with max_retries = 0 the answer is false and nothing changes.
C32_Witness ==
    /\ pc = "api" /\ calls = 2
    /\ Len(stories) = 2
    /\ \A i \in 1..2 :
          stories[i].status \in {FAILED, BLOCKED} /\ stories[i].attempt_count = 0
    /\ should_continue_build(stories, 1).ret
    /\ should_continue_build(stories, 1).stories[1].status = PENDING
    /\ should_continue_build(stories, 1).stories[2] = stories[2]
    /\ ~should_continue_build(stories, 0).ret
    /\ should_continue_build(stories, 0).stories = stories



\* C33: when a run on a record with unique ids has returned, completed_stories
\* of its BuildResult is the number of COMPLETED stories of the queue and
\* the number of stories with passes = true in the file, and is at most
\* total_stories.
C33_CompletedStoriesCount ==
    (Returned /\ Loaded /\ UniqueIds) =>
        /\ TheResult.completed_stories =
              Cardinality({i \in 1..Len(stories) : stories[i].status = COMPLETED})
        /\ file.kind = "valid"
        /\ TheResult.completed_stories =
              Cardinality({k \in 1..Len(file.stories) :
                              Get(file.stories[k].passes, FALSE)})
        /\ TheResult.completed_stories <= TheResult.total_stories
        /\ TheResult.total_stories = Len(stories)

\* One story had passes = true at load and was not attempted, the other was
\* completed by the run at its second attempt: completed_stories = 2.
C33_Witness ==
    /\ Returned /\ Loaded /\ UniqueIds
    /\ Len(stories) = 2
    /\ \E i, j \in 1..2 :
          /\ ~InitiallyPending(i) /\ ImplCalls(i) = 0
          /\ InitiallyPending(j) /\ ImplCalls(j) = 2
          /\ stories[j].status = COMPLETED
    /\ TheResult.completed_stories = 2



\* The first position of the queue whose story has the id, 0 when none has.
FirstWithId(id) ==
    IF \E i \in 1..Len(stories) : stories[i].id = id
    THEN CHOOSE i \in 1..Len(stories) :
            stories[i].id = id /\ \A j \in 1..(i - 1) : stories[j].id # id
    ELSE 0

\* C34: in every queue state and for every id, mark_story_completed,
\* mark_story_failed and mark_story_blocked change the first story with the
\* id and no other (completed: status and no blockers; failed: status and
\* the reason appended; blocked: status and the blocker appended), and
\* leave the queue as it is when no story has the id; the steps of the
\* three operations leave the cursor where it was.
C34_MarkFrame ==
    /\ [](pc = "api" =>
            \A id \in ArgIds :
                LET f == FirstWithId(id)
                    c == mark_story_completed(stories, id)
                    x == mark_story_failed(stories, id, "reason")
                    b == mark_story_blocked(stories, id, "blocker")
                IN  /\ Len(c) = Len(stories)
                    /\ Len(x) = Len(stories)
                    /\ Len(b) = Len(stories)
                    /\ \A i \in 1..Len(stories) :
                          i # f => (c[i] = stories[i] /\ x[i] = stories[i]
                                       /\ b[i] = stories[i])
                    /\ f # 0 =>
                          /\ c[f] = [stories[f] EXCEPT !.status = COMPLETED,
                                                       !.blockers = <<>>]
                          /\ x[f] = [stories[f] EXCEPT
                                        !.status = FAILED,
                                        !.failure_reasons = Append(@, "reason")]
                          /\ b[f] = [stories[f] EXCEPT
                                        !.status = BLOCKED,
                                        !.blockers = Append(@, "blocker")])
    /\ [][\A id \in ArgIds :
              (\/ ApiMarkStoryCompleted(id)
               \/ ApiMarkStoryFailed(id)
               \/ ApiMarkStoryBlocked(id))
                  => current_story_index' = current_story_index]_vars

\* Two stories share an id; the first was selected (the cursor is on it) and
\* then blocked, and the second is as it was loaded.
C34_Witness ==
    /\ pc = "api" /\ calls = 2
    /\ Len(stories) = 2
    /\ stories[1].id = stories[2].id
    /\ stories[1].status = BLOCKED /\ stories[1].blockers = <<"blocker">>
    /\ stories[1].attempt_count = 1
    /\ current_story_index = 0
    /\ stories[2].status = PENDING /\ stories[2].blockers = <<>>



\* The list of record entries `new` is the list `old` with some passes
\* flags gone from not true to true and nothing else changed.
OnlyPassesRaised(old, new) ==
    /\ Len(new) = Len(old)
    /\ \A k \in 1..Len(old) :
          \/ new[k] = old[k]
          \/ /\ ~Get(old[k].passes, FALSE)
             /\ new[k] = [old[k] EXCEPT !.passes = {TRUE}]

\* What a step of a run whose writes succeed does to the record: the load
\* reads the file and writes nothing; after it, _prd_data and the file
\* change by passes flags going to true only, and only in the step that
\* marks the story passed after an attempt that succeeded.
RecordStep ==
    /\ pc = "start" => file' = file
    /\ Loaded =>
          /\ file.kind = "valid" /\ file'.kind = "valid"
          /\ OnlyPassesRaised(file.stories, file'.stories)
          /\ OnlyPassesRaised(UserStoriesOf(prd_data), UserStoriesOf(prd_data'))
          /\ (file' # file \/ prd_data' # prd_data) =>
                (pc = "returned" /\ success /\ pc' = "mark_completed")
    /\ (Loaded /\ pc = "returned" /\ ~success) => file' = file

NothingToDo ==
    \A k \in 1..Len(initial_stories) : Get(initial_stories[k].passes, FALSE)

\* C36: a run that loaded a record with no story, or whose stories all have
\* passes = true, calls neither the Implementer nor the Verifier, does not
\* write the file and is not left by an exception: it goes from the load
\* to its return, where success = true, completed_stories = total_stories
\* (the number of stories of the record) and failed_stories = 0.
C36_NothingToDo ==
    (Loaded /\ NothingToDo) =>
        /\ impl_log = <<>>
        /\ agent_calls = <<>>
        /\ file.fmt = "as_found"
        /\ file.stories = initial_stories
        /\ pc \in {"select", "finish", "done"}
        /\ Returned =>
              /\ TheResult.success
              /\ TheResult.completed_stories = TheResult.total_stories
              /\ TheResult.total_stories = Len(initial_stories)
              /\ TheResult.failed_stories = 0
              /\ TheResult.failed_story_ids = <<>>
              /\ TheResult.errors = <<>>

=============================================================================
